---- MODULE Spec2Model ----
(***************************************************************************)
(* Model of src/main.py: the Queries transport (query, query_rest) behind  *)
(* an asyncio.Semaphore, and the Stats accumulator (get_stats, the         *)
(* memoized accessors, total_contributions).                               *)
(*                                                                         *)
(* asyncio runs one coroutine at a time and switches only at an await that *)
(* really suspends, so every action below is the code between two such     *)
(* suspension points.                                                      *)
(***************************************************************************)
EXTENDS Integers, Sequences, FiniteSets, TLC

(***************************************************************************)
(* Bounds of the model.                                                    *)
(***************************************************************************)
\* number of coroutines calling the transport concurrently
NumTasks == 2
\* largest max_connections the constructor is given
MaxConnections == 1
\* responses of the server that make query_rest go round its loop again
\* (SpecTransport only; SpecRest lets the loop run out)
MaxRetries == 1
\* coroutines that read the accessors of one Stats object
NumCallers == 2
\* accessor calls made on one Stats object
MaxCalls == 2
\* accessor calls of the caller in the runs with one caller
SeqCalls == 3
\* pages of a stream in the runs about pagination
MaxPages == 4
\* queries that come back empty or raise
MaxFaults == 1

(***************************************************************************)
(* Program constants.                                                      *)
(***************************************************************************)
\* for _ in range(60)
RestAttempts == 60

TTasks == 1..NumTasks

VARIABLES
    \* ---- Queries ----
    max_connections,   \* constructor argument
    semaphore,         \* self.semaphore: the number of free units
    pc,                \* position of each transport call
    kind,              \* which call the task makes: "query", "query_rest", "none"
    attempt,           \* the loop index _ of query_rest
    result,            \* what the call gave its caller
    holds,             \* units of the semaphore the task holds
    nPrimary,          \* requests the call sent with aiohttp
    nFallback,         \* requests the call sent with requests
    only202,           \* every response so far was a 202 and nothing raised
    retriesLeft        \* loop-again responses the server may still give

tvars == <<max_connections, semaphore, pc, kind, attempt, result, holds,
           nPrimary, nFallback, only202, retriesLeft>>

VARIABLES
    \* ---- Stats ----
    _stargazers,           \* Optional[int]
    _forks,                \* Optional[int]
    _total_contributions,  \* Optional[int]
    _languages,            \* Optional[Dict]: the entries in insertion order
    _repos,                \* Optional[Set]
    \* ---- the coroutines that read the accessors ----
    cpc,                   \* position of each caller
    acc,                   \* the accessor the caller called last
    callsLeft,             \* accessor calls the caller still makes
    next_owned,            \* local of get_stats
    next_contrib,          \* local of get_stats
    years,                 \* local of total_contributions
    \* ---- the server ----
    owned,                 \* pages of viewer.repositories
    contrib,               \* pages of viewer.repositoriesContributedTo
    pastEnd,               \* endCursor of a page asked for past the end of a stream
    yearTotals,            \* totalContributions of each contribution year
    faultsLeft,            \* queries that may still come back empty or raise
    \* ---- history ----
    fed,                   \* the nodes given to the fold so far, in order
    rounds,                \* page-fetch queries get_stats issued
    nQueries,              \* calls of Queries.query
    statsRuns,             \* times get_stats was entered
    contribRuns,           \* times the contribution total was computed
    statsState,            \* "no", "running", "done", or how get_stats raised:
                           \* "failed_query", "failed_fold", "failed_derive"
    contribState,          \* "no", "running", "done", or how the total raised:
                           \* "failed_query", "failed_sum"
    returned               \* what the accessors gave their callers

svars == <<_stargazers, _forks, _total_contributions, _languages, _repos,
           cpc, acc, callsLeft, next_owned, next_contrib, years,
           owned, contrib, pastEnd, yearTotals, faultsLeft,
           fed, rounds, nQueries, statsRuns, contribRuns, statsState,
           contribState, returned>>

vars == <<tvars, svars>>

(***************************************************************************)
(* asyncio.Semaphore                                                       *)
(***************************************************************************)
\* a gate that admits everyone
SemaphoreFreeAlways == TRUE

\* Semaphore.locked() is false
SemaphoreFree == semaphore > 0

\* async with self.semaphore: __aenter__
Acquire(t) ==
    /\ SemaphoreFree
    /\ semaphore' = semaphore - 1
    /\ holds' = [holds EXCEPT ![t] = @ + 1]

\* a block that is left without giving its unit back
ReleaseForgotten(t) == UNCHANGED <<semaphore, holds>>

\* async with self.semaphore: __aexit__, on return, continue and exception alike
Release(t) ==
    /\ semaphore' = semaphore + 1
    /\ holds' = [holds EXCEPT ![t] = @ - 1]

\* return <value> / an exception leaving the coroutine
Finish(t, r) ==
    /\ pc' = [pc EXCEPT ![t] = "done"]
    /\ result' = [result EXCEPT ![t] = r]

(***************************************************************************)
(* Queries.query                                                           *)
(***************************************************************************)
\* line 47: the primary channel takes a unit, line 48: session.post is awaited
query_acquire(t) ==
    /\ kind[t] = "query" /\ pc[t] = "start"
    /\ Acquire(t)
    /\ pc' = [pc EXCEPT ![t] = "post"]
    /\ nPrimary' = [nPrimary EXCEPT ![t] = @ + 1]
    /\ UNCHANGED <<svars, max_connections, kind, attempt, result, nFallback, only202, retriesLeft>>

\* line 48 returns a response; the unit is given back; line 53 awaits the body
query_post_ok(t) ==
    /\ kind[t] = "query" /\ pc[t] = "post"
    /\ Release(t)
    /\ pc' = [pc EXCEPT ![t] = "json"]
    /\ UNCHANGED <<svars, max_connections, kind, attempt, result, nPrimary, nFallback, only202, retriesLeft>>

\* a fallback that starts inside the block of the primary channel
query_post_raise_nested(t) ==
    /\ kind[t] = "query" /\ pc[t] = "post"
    /\ pc' = [pc EXCEPT ![t] = "fb_wait"]
    /\ only202' = [only202 EXCEPT ![t] = FALSE]
    /\ UNCHANGED <<svars, max_connections, semaphore, holds, kind, attempt,
                   result, nPrimary, nFallback, retriesLeft>>

\* line 48 raises; the unit is given back; line 56 catches, line 59 asks for a unit
query_post_raise(t) ==
    /\ kind[t] = "query" /\ pc[t] = "post"
    /\ Release(t)
    /\ pc' = [pc EXCEPT ![t] = "fb_wait"]
    /\ only202' = [only202 EXCEPT ![t] = FALSE]
    /\ UNCHANGED <<svars, max_connections, kind, attempt, result, nPrimary, nFallback, retriesLeft>>

\* lines 53-55 and 68: the body decodes to a value, to null, or decoding raises
query_json(t) ==
    /\ kind[t] = "query" /\ pc[t] = "json"
    /\ \E body \in {"value", "null", "raise"} :
         /\ only202' = [only202 EXCEPT ![t] = FALSE]
         /\ CASE body = "value" -> Finish(t, "result")
              [] body = "null"  -> Finish(t, "empty")
              [] body = "raise" -> /\ pc' = [pc EXCEPT ![t] = "fb_wait"]
                                   /\ UNCHANGED result
    /\ UNCHANGED <<svars, max_connections, semaphore, holds, kind, attempt, nPrimary, nFallback, retriesLeft>>

\* line 59: the fallback takes a unit, line 60: requests.post is sent
query_fallback_acquire(t) ==
    /\ kind[t] = "query" /\ pc[t] = "fb_wait"
    /\ Acquire(t)
    /\ pc' = [pc EXCEPT ![t] = "fb_post"]
    /\ nFallback' = [nFallback EXCEPT ![t] = @ + 1]
    /\ UNCHANGED <<svars, max_connections, kind, attempt, result, nPrimary, only202, retriesLeft>>

\* lines 60-68: requests.post / .json() give a value, give null, or raise inside
\* the except block, where nothing catches
query_fallback(t) ==
    /\ kind[t] = "query" /\ pc[t] = "fb_post"
    /\ Release(t)
    /\ \E out \in {"value", "null", "raise"} :
         CASE out = "value" -> Finish(t, "result")
           [] out = "null"  -> Finish(t, "empty")
           [] out = "raise" -> Finish(t, "raised")
    /\ UNCHANGED <<svars, max_connections, kind, attempt, nPrimary, nFallback, only202, retriesLeft>>

(***************************************************************************)
(* Queries.query_rest                                                      *)
(***************************************************************************)
\* a loop that goes round once more than range(60)
NextIterationOneMore(t) ==
    IF attempt[t] < RestAttempts
    THEN /\ attempt' = [attempt EXCEPT ![t] = @ + 1]
         /\ pc' = [pc EXCEPT ![t] = "start"]
         /\ UNCHANGED result
    ELSE /\ Finish(t, "empty")
         /\ UNCHANGED attempt

\* a loop that asks again without counting its iterations
NextIterationUncounted(t) ==
    /\ pc' = [pc EXCEPT ![t] = "start"]
    /\ UNCHANGED <<attempt, result>>

\* the loop goes on with the next _ or, after the last one, lines 118-119
NextIteration(t) ==
    IF attempt[t] + 1 < RestAttempts
    THEN /\ attempt' = [attempt EXCEPT ![t] = @ + 1]
         /\ pc' = [pc EXCEPT ![t] = "start"]
         /\ UNCHANGED result
    ELSE /\ Finish(t, "empty")
         /\ UNCHANGED attempt

\* the server has a loop-again response left to give
Again ==
    /\ retriesLeft > 0
    /\ retriesLeft' = retriesLeft - 1

\* line 87: the primary channel takes a unit, line 88: session.get is awaited
rest_acquire(t) ==
    /\ kind[t] = "query_rest" /\ pc[t] = "start"
    /\ Acquire(t)
    /\ pc' = [pc EXCEPT ![t] = "get"]
    /\ nPrimary' = [nPrimary EXCEPT ![t] = @ + 1]
    /\ UNCHANGED <<svars, max_connections, kind, attempt, result, nFallback, only202, retriesLeft>>

\* lines 88-96: the response has status 202; the unit is given back, then sleep(2)
rest_get_202(t) ==
    /\ kind[t] = "query_rest" /\ pc[t] = "get"
    /\ Again
    /\ Release(t)
    /\ pc' = [pc EXCEPT ![t] = "sleep"]
    /\ UNCHANGED <<svars, max_connections, kind, attempt, result, nPrimary, nFallback, only202>>

\* line 97: continue after the sleep
rest_sleep_done(t) ==
    /\ kind[t] = "query_rest" /\ pc[t] = "sleep"
    /\ NextIteration(t)
    /\ UNCHANGED <<svars, max_connections, semaphore, holds, kind, nPrimary, nFallback, only202, retriesLeft>>

\* lines 88-99: the response has another status; the unit is given back, the body
\* is awaited
rest_get_other(t) ==
    /\ kind[t] = "query_rest" /\ pc[t] = "get"
    /\ Release(t)
    /\ pc' = [pc EXCEPT ![t] = "json"]
    /\ only202' = [only202 EXCEPT ![t] = FALSE]
    /\ UNCHANGED <<svars, max_connections, kind, attempt, result, nPrimary, nFallback, retriesLeft>>

\* line 88 raises; the unit is given back; line 102 catches, line 105 asks for a unit
rest_get_raise(t) ==
    /\ kind[t] = "query_rest" /\ pc[t] = "get"
    /\ Release(t)
    /\ pc' = [pc EXCEPT ![t] = "fb_wait"]
    /\ only202' = [only202 EXCEPT ![t] = FALSE]
    /\ UNCHANGED <<svars, max_connections, kind, attempt, result, nPrimary, nFallback, retriesLeft>>

\* lines 99-101: a value is returned
rest_json_value(t) ==
    /\ kind[t] = "query_rest" /\ pc[t] = "json"
    /\ Finish(t, "result")
    /\ UNCHANGED <<svars, max_connections, semaphore, holds, kind, attempt, nPrimary, nFallback, only202, retriesLeft>>

\* lines 99-100: a null body returns nothing and the loop goes on without a sleep
rest_json_null(t) ==
    /\ kind[t] = "query_rest" /\ pc[t] = "json"
    /\ Again
    /\ NextIteration(t)
    /\ UNCHANGED <<svars, max_connections, semaphore, holds, kind, nPrimary, nFallback, only202>>

\* line 99 raises: line 102 catches, line 105 asks for a unit
rest_json_raise(t) ==
    /\ kind[t] = "query_rest" /\ pc[t] = "json"
    /\ pc' = [pc EXCEPT ![t] = "fb_wait"]
    /\ UNCHANGED <<svars, max_connections, semaphore, holds, kind, attempt, result, nPrimary, nFallback, only202, retriesLeft>>

\* line 105: the fallback takes a unit, line 106: requests.get is sent
rest_fallback_acquire(t) ==
    /\ kind[t] = "query_rest" /\ pc[t] = "fb_wait"
    /\ Acquire(t)
    /\ pc' = [pc EXCEPT ![t] = "fb_get"]
    /\ nFallback' = [nFallback EXCEPT ![t] = @ + 1]
    /\ UNCHANGED <<svars, max_connections, kind, attempt, result, nPrimary, only202, retriesLeft>>

\* lines 111-113: the fallback response has status 202; sleep(2) inside the
\* async with block
rest_fallback_202(t) ==
    /\ kind[t] = "query_rest" /\ pc[t] = "fb_get"
    /\ Again
    /\ pc' = [pc EXCEPT ![t] = "fb_sleep"]
    /\ UNCHANGED <<svars, max_connections, semaphore, holds, kind, attempt, result, nPrimary, nFallback, only202>>

\* line 114: continue leaves the async with block
rest_fallback_sleep_done(t) ==
    /\ kind[t] = "query_rest" /\ pc[t] = "fb_sleep"
    /\ Release(t)
    /\ NextIteration(t)
    /\ UNCHANGED <<svars, max_connections, kind, nPrimary, nFallback, only202, retriesLeft>>

\* lines 115-116: status 200: r_requests.json() is returned as it is (a value or
\* None), or raises inside the except block
rest_fallback_200(t) ==
    /\ kind[t] = "query_rest" /\ pc[t] = "fb_get"
    /\ Release(t)
    /\ \E out \in {"value", "null", "raise"} :
         CASE out = "value" -> Finish(t, "result")
           [] out = "null"  -> Finish(t, "None")
           [] out = "raise" -> Finish(t, "raised")
    /\ UNCHANGED <<svars, max_connections, kind, attempt, nPrimary, nFallback, only202, retriesLeft>>

\* line 106 raises inside the except block, where nothing catches
rest_fallback_raise(t) ==
    /\ kind[t] = "query_rest" /\ pc[t] = "fb_get"
    /\ Release(t)
    /\ Finish(t, "raised")
    /\ UNCHANGED <<svars, max_connections, kind, attempt, nPrimary, nFallback, only202, retriesLeft>>

\* lines 111-116: neither 202 nor 200: the block is left and the loop goes on
rest_fallback_other(t) ==
    /\ kind[t] = "query_rest" /\ pc[t] = "fb_get"
    /\ Again
    /\ Release(t)
    /\ NextIteration(t)
    /\ UNCHANGED <<svars, max_connections, kind, nPrimary, nFallback, only202>>

(***************************************************************************)
(* Values of the Stats model                                               *)
(***************************************************************************)
\* Python's None, and a value that is there
None == <<>>
Some(v) == <<v>>
IsNone(x) == Len(x) = 0
Val(x) == x[1]

\* one edge of repo.languages: node.name and size
Edge(n, s) == [name |-> n, size |-> s]

\* one node of a page; nameWithOwner is modelled as a number
Repo(k, st, f, ls) ==
    [null |-> FALSE, nameWithOwner |-> k, stargazers |-> st, forkCount |-> f,
     languages |-> ls]

\* a node that is null
NullRepo == [null |-> TRUE, nameWithOwner |-> 0, stargazers |-> None,
             forkCount |-> 0, languages |-> <<>>]

\* v.get("prop", 0) as an exact fraction
Frac(n, d) == [num |-> n, den |-> d]
FracLess(a, b) == a.num * b.den < b.num * a.den

Callers == 1..NumCallers

Accessors == {"stargazers", "forks", "repos", "languages",
              "languages_proportional", "total_contributions"}

RepoAccessors == Accessors \ {"total_contributions"}

(***************************************************************************)
(* The server: repos_overview answers by cursor. The cursor None is 0 and  *)
(* the endCursor of page i is i.                                           *)
(***************************************************************************)
\* the part of raw_results of one stream, asked for after `cursor`
PageAt(stream, cursor) ==
    IF cursor < Len(stream)
    THEN [nodes |-> stream[cursor + 1],
          hasNextPage |-> cursor + 1 < Len(stream),
          endCursor |-> Some(cursor + 1)]
    ELSE [nodes |-> <<>>,
          hasNextPage |-> FALSE,
          endCursor |-> IF pastEnd = "null" THEN Some(0) ELSE None]

\* .get(...) on the empty result of a failed query: no nodes, no pageInfo
EmptyPage == [nodes |-> <<>>, hasNextPage |-> FALSE, endCursor |-> None]

(***************************************************************************)
(* Stats.get_stats: the fold                                               *)
(***************************************************************************)
\* lines 315-322: one language edge goes into the map
FoldLang(langs, edge) ==
    IF \E i \in 1..Len(langs) : langs[i].name = edge.name
    THEN [i \in 1..Len(langs) |->
             IF langs[i].name = edge.name
             THEN [langs[i] EXCEPT !.size = @ + edge.size]
             ELSE langs[i]]
    ELSE Append(langs, [name |-> edge.name, size |-> edge.size, prop |-> None])

\* line 314: for lang in repo.get("languages", {}).get("edges", [])
RECURSIVE FoldLangs(_, _)
FoldLangs(langs, edges) ==
    IF edges = <<>> THEN langs
    ELSE FoldLangs(FoldLang(langs, Head(edges)), Tail(edges))

\* a fold that counts every occurrence
SeenNever(A, repo) == FALSE

\* line 308: if name in self._repos
Seen(A, repo) == repo.nameWithOwner \in A.repos

\* lines 305-322: one node; A is the state of the four fields and whether the
\* loop has raised
FoldRepo(A, repo) ==
    IF A.raised \/ repo.null \/ Seen(A, repo) THEN A
    ELSE IF IsNone(repo.stargazers)
    THEN [A EXCEPT !.repos = @ \cup {repo.nameWithOwner}, !.raised = TRUE]
    ELSE [A EXCEPT !.repos = @ \cup {repo.nameWithOwner},
                   !.stargazers = @ + Val(repo.stargazers),
                   !.forks = @ + repo.forkCount,
                   !.languages = FoldLangs(@, repo.languages)]

\* line 304: for repo in repos
RECURSIVE FoldPage(_, _)
FoldPage(A, nodes) ==
    IF nodes = <<>> THEN A
    ELSE FoldPage(FoldRepo(A, Head(nodes)), Tail(nodes))

RECURSIVE SumSizes(_)
SumSizes(langs) ==
    IF langs = <<>> THEN 0 ELSE Head(langs).size + SumSizes(Tail(langs))

\* a denominator that leaves the first language out
LangsTotalTail(langs) == IF langs = <<>> THEN 0 ELSE SumSizes(Tail(langs))

\* line 335: langs_total
LangsTotal(langs) == SumSizes(langs)

\* lines 336-337: the division raises when langs_total is 0 and there is a language
DeriveRaises(langs) == langs # <<>> /\ LangsTotal(langs) = 0

\* lines 336-337: v["prop"] = 100 * (size / langs_total)
Derive(langs) ==
    [i \in 1..Len(langs) |->
        [langs[i] EXCEPT !.prop = Some(Frac(100 * langs[i].size, LangsTotal(langs)))]]

(***************************************************************************)
(* The accessors                                                           *)
(***************************************************************************)
\* line 369: v.get("prop", 0)
PropOf(e) == IF IsNone(e.prop) THEN Frac(0, 1) ELSE Val(e.prop)

\* a sort that puts e in front of its equals
InsertDescFront(sorted, e) ==
    LET k == Cardinality({i \in 1..Len(sorted) : FracLess(e.prop, sorted[i].prop)})
    IN  SubSeq(sorted, 1, k) \o <<e>> \o SubSeq(sorted, k + 1, Len(sorted))

\* sorted(..., reverse=True) is stable: e goes behind everything not smaller
InsertDesc(sorted, e) ==
    LET k == Cardinality({i \in 1..Len(sorted) : ~FracLess(sorted[i].prop, e.prop)})
    IN  SubSeq(sorted, 1, k) \o <<e>> \o SubSeq(sorted, k + 1, Len(sorted))

RECURSIVE SortDesc(_, _)
SortDesc(sorted, rest) ==
    IF rest = <<>> THEN sorted
    ELSE SortDesc(InsertDesc(sorted, Head(rest)), Tail(rest))

\* lines 369-371
Proportional(langs) ==
    SortDesc(<<>>, [i \in 1..Len(langs) |->
                       [name |-> langs[i].name, prop |-> PropOf(langs[i])]])

\* the field an accessor looks at first
Field(a) ==
    CASE a = "stargazers" -> _stargazers
      [] a = "forks" -> _forks
      [] a = "repos" -> _repos
      [] a = "languages" -> _languages
      [] a = "languages_proportional" -> _languages
      [] a = "total_contributions" -> _total_contributions

\* an accessor that computes on every call
MissingAlways(a) == TRUE

\* an accessor that looks at whether get_stats has finished, not at its field
MissingUntilDone(a) == statsState # "done"

\* lines 342, 350, 358, 366, 375, 383: the field of the accessor is None
Missing(a) == IsNone(Field(a))

\* the five fields as they are now
Fields == [stargazers |-> _stargazers, forks |-> _forks, languages |-> _languages,
           repos |-> _repos, total_contributions |-> _total_contributions]

\* what accessor a returns when the fields are F
ValueOf(a, F) ==
    CASE a = "stargazers" -> Val(F.stargazers)
      [] a = "forks" -> Val(F.forks)
      [] a = "repos" -> Val(F.repos)
      [] a = "languages" -> Val(F.languages)
      [] a = "languages_proportional" -> Proportional(Val(F.languages))
      [] a = "total_contributions" -> Val(F.total_contributions)

\* the accessor hands v to its caller
Return(c, a, v) ==
    /\ returned' = [returned EXCEPT ![a] = @ \cup {v}]
    /\ cpc' = [cpc EXCEPT ![c] = "ready"]

\* a query comes back: with the server's answer, or (while faults are left)
\* with the empty result of Queries.query
QueryReturns(o) ==
    \/ /\ o = "value"
       /\ UNCHANGED faultsLeft
    \/ /\ o = "empty"
       /\ faultsLeft > 0
       /\ faultsLeft' = faultsLeft - 1

\* Queries.query raises to its caller (both channels failed)
QueryRaises ==
    /\ faultsLeft > 0
    /\ faultsLeft' = faultsLeft - 1

\* lines 342-343, 350-351, 358-359, 366/369-371, 375-376, 383-384: the field is
\* not None and the accessor returns at once
accessor_cached(c, a) ==
    /\ cpc[c] = "ready" /\ callsLeft[c] > 0
    /\ ~IsNone(Field(a))
    /\ callsLeft' = [callsLeft EXCEPT ![c] = @ - 1]
    /\ acc' = [acc EXCEPT ![c] = a]
    /\ Return(c, a, ValueOf(a, Fields))
    /\ UNCHANGED <<tvars, _stargazers, _forks, _total_contributions, _languages,
                   _repos, next_owned, next_contrib, years, owned, contrib,
                   pastEnd, yearTotals, faultsLeft, fed, rounds, nQueries,
                   statsRuns, contribRuns, statsState, contribState>>

\* lines 344, 352, 360, 367, 377 and 277-289: the field is None; get_stats sets
\* the four fields and awaits the first page
get_stats_enter(c, a) ==
    /\ cpc[c] = "ready" /\ callsLeft[c] > 0
    /\ a \in RepoAccessors
    /\ Missing(a)
    /\ callsLeft' = [callsLeft EXCEPT ![c] = @ - 1]
    /\ acc' = [acc EXCEPT ![c] = a]
    /\ _stargazers' = Some(0)
    /\ _forks' = Some(0)
    /\ _languages' = Some(<<>>)
    /\ _repos' = Some({})
    /\ next_owned' = [next_owned EXCEPT ![c] = 0]
    /\ next_contrib' = [next_contrib EXCEPT ![c] = 0]
    /\ cpc' = [cpc EXCEPT ![c] = "stats_wait"]
    /\ rounds' = rounds + 1
    /\ nQueries' = nQueries + 1
    /\ statsRuns' = statsRuns + 1
    /\ statsState' = "running"
    /\ UNCHANGED <<tvars, _total_contributions, years, owned, contrib, pastEnd,
                   yearTotals, faultsLeft, fed, contribRuns, contribState,
                   returned>>

\* lines 285-337 and the return of the accessor: a page arrives, is folded, and
\* the loop asks for the next page or ends
get_stats_page(c, o) ==
    /\ cpc[c] = "stats_wait"
    /\ QueryReturns(o)
    /\ LET owned_repos == IF o = "value" THEN PageAt(owned, next_owned[c])
                          ELSE EmptyPage
           contrib_repos == IF o = "value" THEN PageAt(contrib, next_contrib[c])
                            ELSE EmptyPage
           repos == owned_repos.nodes \o contrib_repos.nodes
           A == FoldPage([stargazers |-> Val(_stargazers), forks |-> Val(_forks),
                          languages |-> Val(_languages), repos |-> Val(_repos),
                          raised |-> FALSE], repos)
           more == owned_repos.hasNextPage \/ contrib_repos.hasNextPage
       IN  /\ fed' = fed \o repos
           /\ _stargazers' = Some(A.stargazers)
           /\ _forks' = Some(A.forks)
           /\ _repos' = Some(A.repos)
           /\ IF A.raised
              THEN \* line 311 raises out of get_stats and of the accessor
                   /\ _languages' = Some(A.languages)
                   /\ cpc' = [cpc EXCEPT ![c] = "failed"]
                   /\ statsState' = "failed_fold"
                   /\ UNCHANGED <<next_owned, next_contrib, rounds, nQueries, returned>>
              ELSE IF more
              THEN \* lines 327-332, then line 285 again
                   /\ _languages' = Some(A.languages)
                   /\ next_owned' = [next_owned EXCEPT ![c] =
                         IF IsNone(owned_repos.endCursor) THEN @
                         ELSE Val(owned_repos.endCursor)]
                   /\ next_contrib' = [next_contrib EXCEPT ![c] =
                         IF IsNone(contrib_repos.endCursor) THEN @
                         ELSE Val(contrib_repos.endCursor)]
                   /\ rounds' = rounds + 1
                   /\ nQueries' = nQueries + 1
                   /\ UNCHANGED <<cpc, statsState, returned>>
              ELSE IF DeriveRaises(A.languages)
              THEN \* line 337 divides by zero
                   /\ _languages' = Some(A.languages)
                   /\ cpc' = [cpc EXCEPT ![c] = "failed"]
                   /\ statsState' = "failed_derive"
                   /\ UNCHANGED <<next_owned, next_contrib, rounds, nQueries, returned>>
              ELSE \* lines 335-337, and the accessor returns its field
                   /\ _languages' = Some(Derive(A.languages))
                   /\ statsState' = "done"
                   /\ Return(c, acc[c],
                             ValueOf(acc[c],
                                     [stargazers |-> Some(A.stargazers),
                                      forks |-> Some(A.forks),
                                      languages |-> Some(Derive(A.languages)),
                                      repos |-> Some(A.repos),
                                      total_contributions |-> _total_contributions]))
                   /\ UNCHANGED <<next_owned, next_contrib, rounds, nQueries>>
    /\ UNCHANGED <<tvars, _total_contributions, acc, callsLeft, years, owned,
                   contrib, pastEnd, yearTotals, statsRuns, contribRuns,
                   contribState>>

\* line 285 raises: the exception leaves get_stats and the accessor
get_stats_raise(c) ==
    /\ cpc[c] = "stats_wait"
    /\ QueryRaises
    /\ cpc' = [cpc EXCEPT ![c] = "failed"]
    /\ statsState' = "failed_query"
    /\ UNCHANGED <<tvars, _stargazers, _forks, _total_contributions, _languages,
                   _repos, acc, callsLeft, next_owned, next_contrib, years,
                   owned, contrib, pastEnd, yearTotals, fed, rounds, nQueries,
                   statsRuns, contribRuns, contribState, returned>>

\* a total_contributions that starts by resetting all five fields
total_contributions_enter_all(c) ==
    /\ cpc[c] = "ready" /\ callsLeft[c] > 0
    /\ Missing("total_contributions")
    /\ callsLeft' = [callsLeft EXCEPT ![c] = @ - 1]
    /\ acc' = [acc EXCEPT ![c] = "total_contributions"]
    /\ _total_contributions' = Some(0)
    /\ _stargazers' = Some(0)
    /\ _forks' = Some(0)
    /\ _languages' = Some(<<>>)
    /\ _repos' = Some({})
    /\ cpc' = [cpc EXCEPT ![c] = "years_wait"]
    /\ nQueries' = nQueries + 1
    /\ contribRuns' = contribRuns + 1
    /\ contribState' = "running"
    /\ UNCHANGED <<tvars, next_owned, next_contrib, years, owned, contrib,
                   pastEnd, yearTotals, faultsLeft, fed, rounds, statsRuns,
                   statsState, returned>>

(***************************************************************************)
(* Stats.total_contributions                                               *)
(***************************************************************************)
\* lines 386-388: the field is None; it is set to 0 and the years are asked for
total_contributions_enter(c) ==
    /\ cpc[c] = "ready" /\ callsLeft[c] > 0
    /\ Missing("total_contributions")
    /\ callsLeft' = [callsLeft EXCEPT ![c] = @ - 1]
    /\ acc' = [acc EXCEPT ![c] = "total_contributions"]
    /\ _total_contributions' = Some(0)
    /\ cpc' = [cpc EXCEPT ![c] = "years_wait"]
    /\ nQueries' = nQueries + 1
    /\ contribRuns' = contribRuns + 1
    /\ contribState' = "running"
    /\ UNCHANGED <<tvars, _stargazers, _forks, _languages, _repos, next_owned,
                   next_contrib, years, owned, contrib, pastEnd, yearTotals,
                   faultsLeft, fed, rounds, statsRuns, statsState, returned>>

\* lines 387-395: the years arrive and the totals of all of them are asked for
contrib_years(c, o) ==
    /\ cpc[c] = "years_wait"
    /\ QueryReturns(o)
    /\ years' = [years EXCEPT ![c] =
                    IF o = "value" THEN [i \in 1..Len(yearTotals) |-> i] ELSE <<>>]
    /\ cpc' = [cpc EXCEPT ![c] = "contribs_wait"]
    /\ nQueries' = nQueries + 1
    /\ UNCHANGED <<tvars, _stargazers, _forks, _total_contributions, _languages,
                   _repos, acc, callsLeft, next_owned, next_contrib, owned,
                   contrib, pastEnd, yearTotals, fed, rounds, statsRuns,
                   contribRuns, statsState, contribState, returned>>

\* lines 400-403: the sum of the totals up to the first null sub-result, where
\* year.get raises
RECURSIVE SumYears(_, _)
SumYears(S, by_year) ==
    IF by_year = <<>> THEN S
    ELSE IF IsNone(Head(by_year)) THEN [S EXCEPT !.raised = TRUE]
    ELSE SumYears([S EXCEPT !.total = @ + Val(Head(by_year))], Tail(by_year))

\* lines 394-404: the totals arrive, are summed, and the accessor returns
contribs_by_year(c, o) ==
    /\ cpc[c] = "contribs_wait"
    /\ QueryReturns(o)
    /\ LET by_year == IF o = "value"
                      THEN [i \in 1..Len(years[c]) |-> yearTotals[years[c][i]]]
                      ELSE <<>>
           S == SumYears([total |-> Val(_total_contributions), raised |-> FALSE],
                         by_year)
       IN  /\ _total_contributions' = Some(S.total)
           /\ IF S.raised
              THEN /\ cpc' = [cpc EXCEPT ![c] = "failed"]
                   /\ contribState' = "failed_sum"
                   /\ UNCHANGED returned
              ELSE /\ contribState' = "done"
                   /\ Return(c, "total_contributions", S.total)
    /\ UNCHANGED <<tvars, _stargazers, _forks, _languages, _repos, acc, callsLeft,
                   next_owned, next_contrib, years, owned, contrib, pastEnd,
                   yearTotals, fed, rounds, nQueries, statsRuns, contribRuns,
                   statsState>>

\* line 388 or 395 raises: the exception leaves the accessor
contrib_raise(c) ==
    /\ cpc[c] \in {"years_wait", "contribs_wait"}
    /\ QueryRaises
    /\ cpc' = [cpc EXCEPT ![c] = "failed"]
    /\ contribState' = "failed_query"
    /\ UNCHANGED <<tvars, _stargazers, _forks, _total_contributions, _languages,
                   _repos, acc, callsLeft, next_owned, next_contrib, years,
                   owned, contrib, pastEnd, yearTotals, fed, rounds, nQueries,
                   statsRuns, contribRuns, statsState, returned>>

(***************************************************************************)
(* The inputs                                                              *)
(***************************************************************************)
\* nodes with the same key and different data, a language of size 0, a null
\* node and a node without stargazers
RA == Repo(1, Some(1), 1, <<Edge("Go", 3), Edge("Rust", 1)>>)
RB == Repo(2, Some(2), 0, <<Edge("Rust", 1)>>)
RA2 == Repo(1, Some(4), 2, <<Edge("Go", 1), Edge("C", 2)>>)
RZ == Repo(3, Some(0), 1, <<Edge("Other", 0)>>)
RX == Repo(4, None, 1, <<Edge("Go", 1)>>)

ContentPages == {<<>>, <<RA>>, <<RB>>, <<RA2>>, <<RZ>>, <<NullRepo, RB>>,
                 <<RA, RA2>>, <<RX>>}

\* owned streams of one or two pages, contributed-to streams of one page
ContentStreams ==
    {<<<<p>>, <<q>>>> : p, q \in ContentPages}
        \cup {<<<<p, r>>, <<q>>>> : p \in {<<RA>>, <<RB>>, <<RZ>>, <<NullRepo, RB>>},
                                   r \in {<<>>, <<RA2>>, <<RZ>>, <<RA, RA2>>, <<RX>>},
                                   q \in {<<RA2>>, <<RZ>>}}

\* a stream of n pages of one repository each, with keys base+1 .. base+n
PagingStream(n, base) ==
    [i \in 1..n |-> <<Repo(base + i, Some(1), 1, <<Edge("Go", 1)>>)>>]

\* streams of every pair of lengths; the two streams share keys
PagingStreams ==
    {<<PagingStream(n, 0), PagingStream(m, 1)>> : n, m \in 1..MaxPages}

\* a few streams for the runs with several callers
SmallStreams ==
    {<<<<<<RA>>>>, <<<<RA2>>>>>>,
     <<<<<<RA>>, <<RB>>>>, <<<<RB>>>>>>,
     <<<<<<RZ>>>>, <<<<>>>>>>}

\* the contribution years: totals, one of them a null sub-result
YearTotals == {<<Some(40), Some(17)>>, <<Some(40), None>>}

(***************************************************************************)
(* Specifications                                                          *)
(***************************************************************************)
\* Queries.__init__ and the calls made on the object
InitQueries(kinds, budget) ==
    /\ max_connections \in 1..MaxConnections
    /\ semaphore = max_connections
    /\ kind \in kinds
    /\ pc = [t \in TTasks |-> IF kind[t] = "none" THEN "idle" ELSE "start"]
    /\ attempt = [t \in TTasks |-> 0]
    /\ result = [t \in TTasks |-> "pending"]
    /\ holds = [t \in TTasks |-> 0]
    /\ nPrimary = [t \in TTasks |-> 0]
    /\ nFallback = [t \in TTasks |-> 0]
    /\ only202 = [t \in TTasks |-> TRUE]
    /\ retriesLeft = budget

\* Stats.__init__, the data the server holds and the calls each caller makes
InitStats(streams, totals, plans, faults) ==
    /\ _stargazers = None
    /\ _forks = None
    /\ _total_contributions = None
    /\ _languages = None
    /\ _repos = None
    /\ cpc = [c \in Callers |-> "ready"]
    /\ acc = [c \in Callers |-> "none"]
    /\ callsLeft \in plans
    /\ next_owned = [c \in Callers |-> 0]
    /\ next_contrib = [c \in Callers |-> 0]
    /\ years = [c \in Callers |-> <<>>]
    /\ \E s \in streams : owned = s[1] /\ contrib = s[2]
    /\ pastEnd \in {"null", "absent"}
    /\ yearTotals \in totals
    /\ faultsLeft = faults
    /\ fed = <<>>
    /\ rounds = 0
    /\ nQueries = 0
    /\ statsRuns = 0
    /\ contribRuns = 0
    /\ statsState = "no"
    /\ contribState = "no"
    /\ returned = [a \in Accessors |-> {}]

\* no transport call is followed
QueriesIdle == InitQueries({[t \in TTasks |-> "none"]}, 0)

\* no accessor is called
StatsIdle ==
    InitStats({<<<<<<>>>>, <<<<>>>>>>}, {<<>>}, {[c \in Callers |-> 0]}, 0)

NextTransport ==
    \E t \in TTasks :
        \/ query_acquire(t)
        \/ query_post_ok(t)
        \/ query_post_raise(t)
        \/ query_json(t)
        \/ query_fallback_acquire(t)
        \/ query_fallback(t)
        \/ rest_acquire(t)
        \/ rest_get_202(t)
        \/ rest_sleep_done(t)
        \/ rest_get_other(t)
        \/ rest_get_raise(t)
        \/ rest_json_value(t)
        \/ rest_json_null(t)
        \/ rest_json_raise(t)
        \/ rest_fallback_acquire(t)
        \/ rest_fallback_202(t)
        \/ rest_fallback_sleep_done(t)
        \/ rest_fallback_200(t)
        \/ rest_fallback_raise(t)
        \/ rest_fallback_other(t)

\* several calls of either kind at once on one Queries object
InitTransport ==
    /\ InitQueries([TTasks -> {"query", "query_rest"}], MaxRetries)
    /\ StatsIdle

SpecTransport == InitTransport /\ [][NextTransport]_vars

\* one call, of either kind; the server has more loop-again responses than
\* the loop of query_rest can take
InitRest ==
    /\ InitQueries({k \in [TTasks -> {"query", "query_rest", "none"}] :
                       \A t \in TTasks : (k[t] # "none") <=> (t = 1)},
                   RestAttempts + MaxRetries)
    /\ StatsIdle

SpecRest == InitRest /\ [][NextTransport]_vars

\* the steps of one call
TaskStep(t) ==
    \/ query_acquire(t) \/ query_post_ok(t) \/ query_post_raise(t)
    \/ query_json(t) \/ query_fallback_acquire(t) \/ query_fallback(t)
    \/ rest_acquire(t) \/ rest_get_202(t) \/ rest_sleep_done(t)
    \/ rest_get_other(t) \/ rest_get_raise(t) \/ rest_json_value(t)
    \/ rest_json_null(t) \/ rest_json_raise(t) \/ rest_fallback_acquire(t)
    \/ rest_fallback_202(t) \/ rest_fallback_sleep_done(t)
    \/ rest_fallback_200(t) \/ rest_fallback_raise(t) \/ rest_fallback_other(t)

\* the event loop runs every task that is ready, every request returns or
\* fails, every sleep ends, and a free unit wakes a waiting task
SpecTransportFair ==
    /\ InitTransport
    /\ [][NextTransport]_vars
    /\ \A t \in TTasks : WF_vars(TaskStep(t))

NextStats ==
    \E c \in Callers :
        \/ \E a \in Accessors : accessor_cached(c, a)
        \/ \E a \in Accessors : get_stats_enter(c, a)
        \/ \E o \in {"value", "empty"} : get_stats_page(c, o)
        \/ get_stats_raise(c)
        \/ total_contributions_enter(c)
        \/ \E o \in {"value", "empty"} : contrib_years(c, o)
        \/ \E o \in {"value", "empty"} : contribs_by_year(c, o)
        \/ contrib_raise(c)

\* only caller 1 calls accessors, one after another
OneCaller == {[c \in Callers |-> IF c = 1 THEN SeqCalls ELSE 0]}

RECURSIVE SumCalls(_, _)
SumCalls(f, n) == IF n = 0 THEN 0 ELSE f[n] + SumCalls(f, n - 1)

\* MaxCalls accessor calls in all, shared out among the callers in every way
AnyCallers ==
    {f \in [Callers -> 0..MaxCalls] : SumCalls(f, NumCallers) = MaxCalls}

\* one caller, pages of every content
InitFold ==
    /\ QueriesIdle
    /\ InitStats(ContentStreams, {<<Some(40), Some(17)>>}, OneCaller, MaxFaults)

SpecFold == InitFold /\ [][NextStats]_vars

\* one caller, streams of every pair of lengths
InitPaging ==
    /\ QueriesIdle
    /\ InitStats(PagingStreams, {<<Some(40), Some(17)>>}, OneCaller, MaxFaults)

SpecPaging == InitPaging /\ [][NextStats]_vars

\* every caller calls accessors, concurrently with the others
InitAccessors ==
    /\ QueriesIdle
    /\ InitStats(SmallStreams, YearTotals, AnyCallers, MaxFaults)

SpecAccessors == InitAccessors /\ [][NextStats]_vars

(***************************************************************************)
(* Claims about the transport                                              *)
(***************************************************************************)
\* the positions at which a network request of the call is in flight
RequestPcs == {"post", "get", "fb_post", "fb_get"}

InFlight == Cardinality({t \in TTasks : pc[t] \in RequestPcs})

\* C1: every transport call returns a result and never raises to its caller,
\* whatever the two channels do; when both channels fail the result is empty.
C1_NeverRaises ==
    \A t \in TTasks :
        pc[t] = "done" =>
            /\ result[t] # "raised"
            /\ (nFallback[t] > 0 /\ result[t] # "result" => result[t] = "empty")

\* C2: the number of network requests in flight never exceeds max_connections,
\* and a request is in flight only in a task that holds a unit of the gate.
C2_GateBound ==
    /\ InFlight <= max_connections
    /\ \A t \in TTasks : pc[t] \in RequestPcs => holds[t] >= 1

\* the gate is full with a fallback request in flight while another call waits
C2_Witness ==
    /\ InFlight = max_connections
    /\ \E t \in TTasks : pc[t] \in {"fb_post", "fb_get"}
    /\ \E t \in TTasks : pc[t] \in {"start", "fb_wait"}

\* C3: a query_rest call that saw nothing but 202 responses ends after exactly
\* 60 requests and returns the empty result.
C3_Retry202 ==
    \A t \in TTasks :
        (kind[t] = "query_rest" /\ pc[t] = "done" /\ only202[t]) =>
            /\ nPrimary[t] + nFallback[t] = RestAttempts
            /\ result[t] = "empty"

\* a query_rest call has ended after 202 responses only
C3_Witness ==
    \E t \in TTasks :
        kind[t] = "query_rest" /\ pc[t] = "done" /\ only202[t] /\ nPrimary[t] > 1

(***************************************************************************)
(* Claims about the fold, the pagination and the accessors                 *)
(***************************************************************************)
\* the positions of s that hold a repository
Real(s) == {i \in 1..Len(s) : ~s[i].null}

\* the positions of s that hold the first occurrence of a key
FirstOcc(s) ==
    {i \in Real(s) :
        \A j \in 1..(i - 1) : s[j].null \/ s[j].nameWithOwner # s[i].nameWithOwner}

RECURSIVE SumStars(_, _)
SumStars(s, I) ==
    IF I = {} THEN 0
    ELSE LET i == CHOOSE x \in I : TRUE
         IN  Val(s[i].stargazers) + SumStars(s, I \ {i})

RECURSIVE SumForks(_, _)
SumForks(s, I) ==
    IF I = {} THEN 0
    ELSE LET i == CHOOSE x \in I : TRUE
         IN  s[i].forkCount + SumForks(s, I \ {i})

RECURSIVE SumEdges(_, _)
SumEdges(edges, n) ==
    IF edges = <<>> THEN 0
    ELSE (IF Head(edges).name = n THEN Head(edges).size ELSE 0)
             + SumEdges(Tail(edges), n)

RECURSIVE SumLang(_, _, _)
SumLang(s, I, n) ==
    IF I = {} THEN 0
    ELSE LET i == CHOOSE x \in I : TRUE
         IN  SumEdges(s[i].languages, n) + SumLang(s, I \ {i}, n)

\* every node given to the fold has its stargazers
WellFormed(s) == \A i \in Real(s) : ~IsNone(s[i].stargazers)

\* C4: a key fed to the fold more than once, from either stream, is in the
\* repository set once, and the star total, the fork total and the language
\* sizes are those of the first occurrences alone.
C4_Dedup ==
    (~IsNone(_repos) /\ WellFormed(fed)) =>
        LET F == FirstOcc(fed)
            L == Val(_languages)
        IN  /\ Val(_repos) = {fed[i].nameWithOwner : i \in Real(fed)}
            /\ Cardinality(Val(_repos)) = Cardinality(F)
            /\ Val(_stargazers) = SumStars(fed, F)
            /\ Val(_forks) = SumForks(fed, F)
            /\ \A k \in 1..Len(L) : L[k].size = SumLang(fed, F, L[k].name)
            /\ \A i \in F : \A e \in 1..Len(fed[i].languages) :
                   \E k \in 1..Len(L) : L[k].name = fed[i].languages[e].name

\* get_stats has ended after folding a key twice, the second time with other data
C4_Witness ==
    /\ statsState = "done"
    /\ WellFormed(fed)
    /\ \E i, j \in Real(fed) :
          /\ i < j
          /\ fed[i].nameWithOwner = fed[j].nameWithOwner
          /\ fed[i].stargazers # fed[j].stargazers
          /\ fed[i].languages # fed[j].languages

\* the backing computation of accessor a has completed
Computed(a) ==
    IF a = "total_contributions" THEN contribState = "done" ELSE statsState = "done"

\* C5: get_stats runs at most once and the contribution total is computed at
\* most once; an accessor called after its computation completed returns the
\* cached value at once, with no query and no change of the fields.
C5_ComputedOnce ==
    /\ [](statsRuns <= 1 /\ contribRuns <= 1)
    /\ [][\A c \in Callers :
            (callsLeft'[c] < callsLeft[c] /\ Computed(acc'[c])) =>
                /\ nQueries' = nQueries
                /\ cpc'[c] = "ready"
                /\ ValueOf(acc'[c], Fields) \in returned'[acc'[c]]
                /\ Fields' = Fields]_vars

\* one caller has called a repository accessor twice: computed, then cached
C5_Witness ==
    \E c \in Callers :
        /\ callsLeft[c] = SeqCalls - 2
        /\ cpc[c] = "ready"
        /\ statsState = "done"
        /\ contribState = "no"
        /\ nQueries = rounds
        /\ \E a \in RepoAccessors : returned[a] # {} /\ a # acc[c]

\* C6: with concurrent first calls of the repository accessors get_stats is
\* entered at most once, and its loop never runs in two tasks.
C6_SingleFlight ==
    /\ statsRuns <= 1
    /\ Cardinality({c \in Callers : cpc[c] = "stats_wait"}) <= 1

\* a second task has called a repository accessor while get_stats was in flight
C6_Witness ==
    \E c, d \in Callers :
        /\ c # d
        /\ cpc[c] = "stats_wait"
        /\ cpc[d] = "ready"
        /\ acc[d] \in RepoAccessors

\* C7: every value an accessor returned is the value of the completed
\* snapshot, never one taken while the computation was in flight.
C7_Snapshot ==
    /\ statsState = "done" =>
          \A a \in RepoAccessors : \A v \in returned[a] : v = ValueOf(a, Fields)
    /\ contribState = "done" =>
          \A v \in returned["total_contributions"] : v = Val(_total_contributions)

Max(a, b) == IF a >= b THEN a ELSE b

\* C8: with N owned pages and M contributed-to pages, all served, get_stats
\* has issued exactly max(N, M) page fetches when it ends.
C8_Rounds ==
    (statsState = "done" /\ faultsLeft = MaxFaults) =>
        rounds = Max(Len(owned), Len(contrib))

RECURSIVE SumNum(_)
SumNum(langs) ==
    IF langs = <<>> THEN 0 ELSE PropOf(Head(langs)).num + SumNum(Tail(langs))

\* C9: after get_stats completed with languages, every percentage has the sum
\* of all sizes as its denominator and the percentages sum to 100; with no
\* language the derivation does not raise and the proportional view is empty.
C9_Percentages ==
    /\ statsState = "done" =>
          LET L == Val(_languages)
          IN  /\ \A k \in 1..Len(L) :
                    /\ ~IsNone(L[k].prop)
                    /\ PropOf(L[k]).den = SumSizes(L)
                    /\ PropOf(L[k]).den > 0
              /\ L # <<>> => SumNum(L) = 100 * SumSizes(L)
              /\ L = <<>> => Proportional(L) = <<>>
    /\ statsState = "failed_derive" => Val(_languages) # <<>>

\* get_stats has completed with two languages
C9_Witness ==
    /\ statsState = "done"
    /\ Len(Val(_languages)) >= 2
    /\ \E k \in 1..Len(Val(_languages)) : Val(_languages)[k].size > 0

\* C10: when the sizes sum to zero the derive step does not divide by zero
\* and gives an empty or all-zero mapping.
C10_ZeroTotal ==
    (statsState \in {"done", "failed_derive"} /\ SumSizes(Val(_languages)) = 0) =>
        /\ statsState = "done"
        /\ \A k \in 1..Len(Val(_languages)) : PropOf(Val(_languages)[k]).num = 0

\* C11: absent fields and null values of a page are taken as zero or absent;
\* the fold never raises and goes on with the remaining nodes.
C11_FoldNeverAborts ==
    /\ statsState # "failed_fold"
    /\ (~IsNone(_repos) /\ statsState # "failed_query") =>
          \A i \in Real(fed) : fed[i].nameWithOwner \in Val(_repos)

RECURSIVE SumTotals(_)
SumTotals(totals) ==
    IF totals = <<>> THEN 0
    ELSE (IF IsNone(Head(totals)) THEN 0 ELSE Val(Head(totals)))
             + SumTotals(Tail(totals))

\* C12: total_contributions is the sum of the totalContributions of all years;
\* a year whose sub-result is null counts as zero and raises nothing.
C12_NullYearIsZero ==
    (contribState \in {"done", "failed_sum"} /\ faultsLeft = MaxFaults) =>
        /\ contribState = "done"
        /\ Val(_total_contributions) = SumTotals(yearTotals)

\* the four fields as the accumulator of the fold
Folded ==
    [stargazers |-> Val(_stargazers), forks |-> Val(_forks),
     languages |-> Val(_languages), repos |-> Val(_repos), raised |-> FALSE]

\* C13: folding a second time a page that was already folded (any run of
\* nodes that ends the nodes folded so far, the last page among them) leaves
\* the set of repositories, the stars, the forks and the language sizes as
\* they are.
C13_FoldIdempotent ==
    (~IsNone(_repos) /\ statsState # "failed_fold") =>
        \A k \in 1..Len(fed) : FoldPage(Folded, SubSeq(fed, k, Len(fed))) = Folded

\* a first page was served and folded again after the cursor went back to it
C13_Witness ==
    /\ statsState = "done"
    /\ rounds > Max(Len(owned), Len(contrib))
    /\ Val(_stargazers) > 0
    /\ \E i, j \in Real(fed) : i < j /\ fed[i] = fed[j]

RECURSIVE SumHolds(_)
SumHolds(S) ==
    IF S = {} THEN 0
    ELSE LET t == CHOOSE x \in S : TRUE IN holds[t] + SumHolds(S \ {t})

AllFinished == \A t \in TTasks : pc[t] \in {"done", "idle"}

\* C14: every acquisition of the gate is matched by exactly one release on
\* every path: the units out are the units held by the calls in progress, a
\* call that has ended holds none, and when all calls have ended the gate has
\* its initial capacity again.
C14_AcquireRelease ==
    /\ semaphore + SumHolds(TTasks) = max_connections
    /\ \A t \in TTasks : holds[t] \in {0, 1}
    /\ \A t \in TTasks : pc[t] \in {"done", "idle"} => holds[t] = 0
    /\ AllFinished => semaphore = max_connections

\* all calls have ended, one by an exception of the fallback and one after
\* a 202 answer
C14_Witness ==
    /\ AllFinished
    /\ \E t \in TTasks : result[t] = "raised" /\ nFallback[t] > 0
    /\ \E t \in TTasks : kind[t] = "query_rest" /\ attempt[t] > 0

\* C15: an exception on the primary channel causes exactly one retry on the
\* secondary channel: a query sends at most one fallback request and has no
\* loop, and a query_rest call sends at most one request on the secondary
\* channel.
C15_OneFallbackPerCall ==
    \A t \in TTasks :
        /\ nFallback[t] <= 1
        /\ kind[t] = "query" => nPrimary[t] <= 1 /\ attempt[t] = 0

\* C15, amended: a query sends at most one request on each channel and never
\* loops; a query_rest call sends, in each of its at most 60 iterations, at
\* most one request on the primary channel and, only after it, at most one on
\* the secondary channel.
C15_OneFallbackPerIteration ==
    \A t \in TTasks :
        /\ nFallback[t] <= nPrimary[t]
        /\ kind[t] = "query" => nPrimary[t] <= 1 /\ attempt[t] = 0
        /\ kind[t] = "query_rest" =>
              /\ attempt[t] < RestAttempts
              /\ nPrimary[t] <= attempt[t] + 1
              /\ nFallback[t] <= attempt[t] + 1

\* a query_rest call has ended after using the secondary channel in every one
\* of its iterations
C15_Witness ==
    \E t \in TTasks :
        /\ kind[t] = "query_rest" /\ pc[t] = "done"
        /\ nFallback[t] = RestAttempts

\* C16: the cursor of a stream moves only when the page served for that
\* stream says there is more; a stream whose page says there is no more keeps
\* its cursor, also while the other stream still has pages.
C16_CursorHalts ==
    [][\A c \in Callers :
          cpc[c] = "stats_wait" =>
              /\ ~PageAt(owned, next_owned[c]).hasNextPage =>
                     next_owned'[c] = next_owned[c]
              /\ ~PageAt(contrib, next_contrib[c]).hasNextPage =>
                     next_contrib'[c] = next_contrib[c]]_vars

\* where the language n was first inserted
Pos(L, n) == CHOOSE i \in 1..Len(L) : L[i].name = n

Descending(P) ==
    \A i, j \in 1..Len(P) : i < j => ~FracLess(P[i].prop, P[j].prop)

OncePerName(P) ==
    \A i, j \in 1..Len(P) : P[i].name = P[j].name => i = j

Tied(P, i, j) ==
    /\ i < j
    /\ ~FracLess(P[i].prop, P[j].prop)
    /\ ~FracLess(P[j].prop, P[i].prop)

\* C17: languages_proportional gives every language exactly once, ordered by
\* percentage from high to low, languages of equal percentage in the order of
\* their first insertion.
C17_SortedStable ==
    /\ ~IsNone(_languages) =>
          LET L == Val(_languages)
              P == Proportional(L)
          IN  /\ Len(P) = Len(L)
              /\ OncePerName(P)
              /\ \A k \in 1..Len(L) : \E i \in 1..Len(P) : P[i].name = L[k].name
              /\ Descending(P)
              /\ \A i, j \in 1..Len(P) :
                    Tied(P, i, j) => Pos(L, P[i].name) < Pos(L, P[j].name)
    /\ \A P \in returned["languages_proportional"] :
          Descending(P) /\ OncePerName(P)

\* languages_proportional has returned a mapping with two languages of equal
\* percentage behind a language that was inserted after them
C17_Witness ==
    /\ statsState = "done"
    /\ \E P \in returned["languages_proportional"] :
          /\ P = Proportional(Val(_languages))
          /\ \E i, j \in 1..Len(P) : Tied(P, i, j)
          /\ P[1].name # Val(_languages)[1].name

RepoFields == <<_stargazers, _forks, _languages, _repos>>

RepoFieldsSet ==
    ~IsNone(_stargazers) /\ ~IsNone(_forks) /\ ~IsNone(_languages) /\ ~IsNone(_repos)

RepoFieldsNone ==
    IsNone(_stargazers) /\ IsNone(_forks) /\ IsNone(_languages) /\ IsNone(_repos)

\* C18: the fold of the repositories and the total of the contributions do
\* not touch each other: a call of a repository accessor leaves the four
\* repository fields set together and the contribution total as it was, a call
\* of total_contributions leaves the four repository fields as they were and
\* does not run get_stats, and so does every later step of either.
C18_Frame ==
    /\ [](RepoFieldsSet \/ RepoFieldsNone)
    /\ [][/\ \A c \in Callers :
                callsLeft'[c] < callsLeft[c] =>
                    /\ acc'[c] \in RepoAccessors =>
                          /\ RepoFieldsSet'
                          /\ _total_contributions' = _total_contributions
                          /\ contribRuns' = contribRuns
                    /\ acc'[c] = "total_contributions" =>
                          /\ RepoFields' = RepoFields
                          /\ statsRuns' = statsRuns
                          /\ rounds' = rounds
          /\ RepoFields' # RepoFields =>
                _total_contributions' = _total_contributions
          /\ _total_contributions' # _total_contributions =>
                RepoFields' = RepoFields /\ statsRuns' = statsRuns]_vars

\* both computations have run to their end, each with a result above zero
C18_Witness ==
    /\ statsState = "done" /\ contribState = "done"
    /\ Val(_stargazers) > 0
    /\ Val(_total_contributions) > 0
    /\ statsRuns = 1 /\ contribRuns = 1

\* the call waits for a unit of the gate
Waiting(t) == pc[t] \in {"start", "fb_wait"}

\* C19: no call waits for a unit of the gate while it holds one, so no state
\* is a deadlock, and when every request returns or fails every call that
\* waits at the gate is admitted in the end.
C19_NoDeadlock ==
    /\ [](\A t \in TTasks : Waiting(t) => holds[t] = 0)
    /\ [](~AllFinished => ENABLED <<NextTransport>>_vars)
    /\ \A t \in TTasks : Waiting(t) ~> ~Waiting(t)

\* a call waits at the gate while the only units are held by calls that
\* sleep on the fallback path
C19_Witness ==
    /\ semaphore = 0
    /\ \E t \in TTasks : Waiting(t)
    /\ \A t \in TTasks : holds[t] = 1 => pc[t] = "fb_sleep"

\* C20: a query_rest call holds no unit of the gate while it sleeps after a
\* 202 answer, on the primary and on the fallback path alike.
C20_SleepsWithoutUnit ==
    \A t \in TTasks : pc[t] \in {"sleep", "fb_sleep"} => holds[t] = 0

====
